---- MODULE Spec2Model ----
(***************************************************************************)
(* Model of package union (eriicafes/union): the generic containers        *)
(* TaggedUnion[Spec] and Union[Spec] with their GetValue, MarshalJSON and  *)
(* UnmarshalJSON methods.                                                  *)
(*                                                                         *)
(* A Spec is described by what reflection shows of it: whether it is a     *)
(* struct, its fields in declaration order (name, `variant` tag, type),    *)
(* and the pair its TaggedFieldNames method returns, if it has one.        *)
(* JSON text is modelled by its syntax status and the value it denotes;    *)
(* encoding/json is modelled by what it does on these values.              *)
(***************************************************************************)
EXTENDS Integers, Sequences, FiniteSets, TLC

VARIABLES kind, spec, Value, last

vars == <<kind, spec, Value, last>>

(***************************************************************************)
(* Bounds                                                                  *)
(***************************************************************************)

\* float64 payload numbers are 0..MaxNum
MaxNum == 1

Nums == 0..MaxNum

(***************************************************************************)
(* JSON values and JSON text                                               *)
(***************************************************************************)

JNull == [k |-> "null"]

JNum(n) == [k |-> "num", n |-> n]

JStr(s) == [k |-> "str", s |-> s]

JArr == [k |-> "arr"]

JTrue == [k |-> "bool"]

JObj(m) == [k |-> "obj", m |-> m]

\* JSON text: "ok" is one well-formed value, "trailing" is a well-formed
\* value followed by garbage, "bad" has no well-formed leading value.
Text(j) == [syntax |-> "ok", val |-> j]

Trailing(j) == [syntax |-> "trailing", val |-> j]

Malformed == [syntax |-> "bad", val |-> JNull]

NoErr == <<>>

SyntaxError == <<"json: syntax error">>

TypeError == <<"json: cannot unmarshal">>

UnknownFieldError == <<"json: unknown field">>

(***************************************************************************)
(* The payload struct types and the Specs                                  *)
(***************************************************************************)

\* JSON keys of the payload struct types (all fields are float64)
StructKeys ==
  [Circle |-> {"radius"},
   Rectangle |-> {"width", "height"},
   Triangle |-> {"base", "height"}]

Field(name, tag, type, ptr) == [name |-> name, tag |-> tag, type |-> type, ptr |-> ptr]

Shape ==
  [struct |-> TRUE, names |-> <<>>,
   fields |-> << Field("Circle", "circle", "Circle", TRUE),
                 Field("Rectangle", "rectangle", "Rectangle", TRUE),
                 Field("Triangle", "triangle", "Triangle", TRUE) >>]

CustomFieldNamesShape ==
  [struct |-> TRUE, names |-> <<"kind", "data">>,
   fields |-> << Field("Circle", "circle", "Circle", TRUE),
                 Field("Rectangle", "rectangle", "Rectangle", TRUE) >>]

NonPointerShape ==
  [struct |-> TRUE, names |-> <<>>,
   fields |-> << Field("Circle", "circle", "Circle", FALSE),
                 Field("Rectangle", "rectangle", "Rectangle", FALSE) >>]

NonStructTagsShape ==
  [struct |-> TRUE, names |-> <<>>,
   fields |-> << Field("Circle", "", "Circle", TRUE),
                 Field("Rectangle", "", "Rectangle", TRUE),
                 Field("Triangle", "", "Triangle", TRUE) >>]

UnionNonPointerShape ==
  [struct |-> TRUE, names |-> <<>>,
   fields |-> << Field("Circle", "", "Circle", FALSE),
                 Field("Rectangle", "", "Rectangle", FALSE) >>]

UnionEmptyShape == [struct |-> TRUE, names |-> <<>>, fields |-> <<>>]

\* type NonStructType int
NonStructType == [struct |-> FALSE, names |-> <<>>, fields |-> <<>>]

\* a Spec two of whose fields resolve to the same variant name
SharedTagShape ==
  [struct |-> TRUE, names |-> <<>>,
   fields |-> << Field("Circle", "shape", "Circle", TRUE),
                 Field("Rectangle", "shape", "Rectangle", FALSE) >>]

\* a Spec whose second field's JSON the first field's type accepts too
RepeatedTypeShape ==
  [struct |-> TRUE, names |-> <<>>,
   fields |-> << Field("Round", "", "Circle", TRUE),
                 Field("Disc", "", "Circle", FALSE) >>]

SpecDefs ==
  [Shape |-> Shape,
   CustomFieldNamesShape |-> CustomFieldNamesShape,
   NonPointerShape |-> NonPointerShape,
   NonStructTagsShape |-> NonStructTagsShape,
   UnionNonPointerShape |-> UnionNonPointerShape,
   UnionEmptyShape |-> UnionEmptyShape,
   NonStructType |-> NonStructType,
   SharedTagShape |-> SharedTagShape,
   RepeatedTypeShape |-> RepeatedTypeShape]

SpecNames == DOMAIN SpecDefs

NumField(S) == Len(S.fields)

(***************************************************************************)
(* Go values: a struct value is a function from its JSON keys to numbers,  *)
(* a pointer is <<>> (nil) or <<s>> (a pointer to s).                      *)
(***************************************************************************)

StructValues(T) == [StructKeys[T] -> Nums]

ZeroStruct(T) == [k \in StructKeys[T] |-> 0]

FieldValues(tf) ==
  IF tf.ptr
    THEN {<<>>} \cup {<<s>> : s \in StructValues(tf.type)}
    ELSE StructValues(tf.type)

\* reflect.New(tf.Type).Elem(): the zero value of the field's type
ZeroField(tf) == IF tf.ptr THEN <<>> ELSE ZeroStruct(tf.type)

\* the zero value of Spec (a non-struct Spec is the int 0)
ZeroSpec(S) == IF S.struct THEN [i \in 1..NumField(S) |-> ZeroField(S.fields[i])] ELSE 0

\* reflect.Value.IsZero: a nil pointer, or a struct all of whose fields are 0
IsZero(tf, v) == IF tf.ptr THEN v = <<>> ELSE \A k \in DOMAIN v : v[k] = 0

\* cmp.Or with the tag dropped: the field identifier is always used
MutCmpOr(a, b) == b

\* cmp.Or(a, b): the first argument that is not the zero string
CmpOr(a, b) == IF a # "" THEN a ELSE b

(***************************************************************************)
(* encoding/json, by what it does on the values above.  Keys are spelled   *)
(* as the json tags spell them; payload numbers are finite, so json.Marshal*)
(* of a payload returns no error.                                          *)
(***************************************************************************)

\* json.Marshal of a payload struct: every key, no omitempty
MarshalStruct(s) == JObj([k \in DOMAIN s |-> JNum(s[k])])

\* json.Marshal of a field value (vf.Interface())
MarshalValue(tf, v) ==
  IF tf.ptr
    THEN IF v = <<>> THEN JNull ELSE MarshalStruct(v[1])
    ELSE MarshalStruct(v)

\* decoding JSON value j into a fresh struct of type T; strict is
\* Decoder.DisallowUnknownFields
DecodeStruct(T, j, strict) ==
  IF j.k = "null" THEN [err |-> NoErr, val |-> ZeroStruct(T)]
  ELSE IF j.k # "obj" THEN [err |-> TypeError, val |-> ZeroStruct(T)]
  ELSE LET m == j.m
           known == DOMAIN m \cap StructKeys[T]
           val == [k \in StructKeys[T] |->
                     IF k \in known /\ m[k].k = "num" THEN m[k].n ELSE 0]
       IN  IF \E k \in known : m[k].k \notin {"num", "null"}
             THEN [err |-> TypeError, val |-> val]
           ELSE IF strict /\ DOMAIN m \ StructKeys[T] # {}
             THEN [err |-> UnknownFieldError, val |-> val]
           ELSE [err |-> NoErr, val |-> val]

\* decoding JSON value j into reflect.New(tf.Type): a pointer target is
\* left nil by null and allocated by anything else
DecodeValue(tf, j, strict) ==
  IF ~tf.ptr THEN DecodeStruct(tf.type, j, strict)
  ELSE IF j.k = "null" THEN [err |-> NoErr, val |-> <<>>]
  ELSE LET d == DecodeStruct(tf.type, j, strict)
       IN  [err |-> d.err, val |-> <<d.val>>]

\* json.Unmarshal(data, target): the whole text must be one valid value
jsonUnmarshal(tf, data) ==
  IF data.syntax # "ok" THEN [err |-> SyntaxError, val |-> ZeroField(tf)]
  ELSE DecodeValue(tf, data.val, FALSE)

\* Decode without DisallowUnknownFields
MutDecoderDecode(tf, data) ==
  IF data.syntax = "bad" THEN [err |-> SyntaxError, val |-> ZeroField(tf)]
  ELSE DecodeValue(tf, data.val, FALSE)

\* json.NewDecoder(data) with DisallowUnknownFields, then Decode(target):
\* reads the first value of the stream and does not look past it
decoderDecode(tf, data) ==
  IF data.syntax = "bad" THEN [err |-> SyntaxError, val |-> ZeroField(tf)]
  ELSE DecodeValue(tf, data.val, TRUE)

\* json.Unmarshal(data, &raw) with raw map[string]json.RawMessage
jsonUnmarshalRaw(data) ==
  IF data.syntax # "ok" THEN [err |-> SyntaxError, raw |-> <<>>]
  ELSE IF data.val.k = "null" THEN [err |-> NoErr, raw |-> <<>>]
  ELSE IF data.val.k # "obj" THEN [err |-> TypeError, raw |-> <<>>]
  ELSE [err |-> NoErr, raw |-> [k \in DOMAIN data.val.m |-> Text(data.val.m[k])]]

\* json.Unmarshal into a string that lets every non-string pass like null
MutJsonUnmarshalString(data) ==
  IF data.syntax # "ok" THEN [err |-> SyntaxError, val |-> ""]
  ELSE IF data.val.k = "str" THEN [err |-> NoErr, val |-> data.val.s]
  ELSE [err |-> NoErr, val |-> ""]

\* json.Unmarshal(rawType, &variant) with variant a string: null leaves it ""
jsonUnmarshalString(data) ==
  IF data.syntax # "ok" THEN [err |-> SyntaxError, val |-> ""]
  ELSE IF data.val.k = "str" THEN [err |-> NoErr, val |-> data.val.s]
  ELSE IF data.val.k = "null" THEN [err |-> NoErr, val |-> ""]
  ELSE [err |-> TypeError, val |-> ""]

(***************************************************************************)
(* TaggedUnion[Spec]                                                       *)
(***************************************************************************)

\* fieldNames without the TaggedFieldNames check
MutFieldNames(S) == [variant |-> "type", value |-> "value"]

\* the pair TaggedFieldNames returns if Spec has the method, else the default
fieldNames(S) ==
  IF S.names # <<>>
    THEN [variant |-> S.names[1], value |-> S.names[2]]
    ELSE [variant |-> "type", value |-> "value"]

\* the loop of GetValue from field i on; value is <<>> for a nil interface
RECURSIVE TaggedGetValueLoop(_, _, _, _)
TaggedGetValueLoop(S, V, i, value) ==
  IF i > NumField(S) THEN value
  ELSE IF IsZero(S.fields[i], V[i]) THEN TaggedGetValueLoop(S, V, i + 1, value)
  ELSE IF value # <<>> THEN <<>>
  ELSE TaggedGetValueLoop(S, V, i + 1, <<V[i]>>)

TaggedGetValue(S, V) ==
  IF ~S.struct THEN <<>> ELSE TaggedGetValueLoop(S, V, 1, <<>>)

\* MarshalJSON's loop without the check for a second non-zero field
RECURSIVE MutTaggedMarshalLoop(_, _, _, _)
MutTaggedMarshalLoop(S, V, i, active) ==
  IF i > NumField(S) THEN [err |-> NoErr, active |-> active]
  ELSE IF IsZero(S.fields[i], V[i]) THEN MutTaggedMarshalLoop(S, V, i + 1, active)
  ELSE IF active # <<>> THEN MutTaggedMarshalLoop(S, V, i + 1, active)
  ELSE MutTaggedMarshalLoop(S, V, i + 1, <<i>>)

\* the loop of MarshalJSON from field i on; active is <<>> or <<index>> of
\* the field whose value and variant name are held
RECURSIVE TaggedMarshalLoop(_, _, _, _)
TaggedMarshalLoop(S, V, i, active) ==
  IF i > NumField(S) THEN [err |-> NoErr, active |-> active]
  ELSE IF IsZero(S.fields[i], V[i]) THEN TaggedMarshalLoop(S, V, i + 1, active)
  ELSE IF active # <<>> THEN [err |-> <<"multiple variants set">>, active |-> active]
  ELSE TaggedMarshalLoop(S, V, i + 1, <<i>>)

TaggedMarshalJSON(S, V) ==
  IF ~S.struct THEN [err |-> <<"spec must be a struct">>, out |-> <<>>]
  ELSE LET r == TaggedMarshalLoop(S, V, 1, <<>>) IN
    IF r.err # NoErr THEN [err |-> r.err, out |-> <<>>]
    ELSE IF r.active = <<>> THEN [err |-> <<"zero variants set">>, out |-> <<>>]
    ELSE LET i == r.active[1]
             tf == S.fields[i]
             variant == CmpOr(tf.tag, tf.name)
             fn == fieldNames(S)
             \* map[string]any{variantField: variant, valueField: value}
             out == [key \in {fn.variant, fn.value} |->
                       IF key = fn.value THEN MarshalValue(tf, V[i]) ELSE JStr(variant)]
         IN  [err |-> NoErr, out |-> <<Text(JObj(out))>>]

\* UnmarshalJSON's loop matching the field identifier, not the variant tag
RECURSIVE MutTaggedUnmarshalLoopName(_, _, _, _, _, _)
MutTaggedUnmarshalLoopName(S, V, variant, rawValue, i, matched) ==
  IF i > NumField(S)
    THEN [err |-> IF matched THEN NoErr ELSE <<"unknown variant", variant>>, Value |-> V]
  ELSE LET tf == S.fields[i] IN
    IF tf.name # variant
      THEN MutTaggedUnmarshalLoopName(S, V, variant, rawValue, i + 1, matched)
    ELSE IF matched THEN [err |-> <<"multiple fields matched">>, Value |-> V]
    ELSE LET target == jsonUnmarshal(tf, rawValue) IN
      IF target.err # NoErr THEN [err |-> target.err, Value |-> V]
      ELSE MutTaggedUnmarshalLoopName(S, [V EXCEPT ![i] = target.val], variant, rawValue, i + 1, TRUE)

\* UnmarshalJSON's loop matching the variant tag or the field identifier
RECURSIVE MutTaggedUnmarshalLoopEither(_, _, _, _, _, _)
MutTaggedUnmarshalLoopEither(S, V, variant, rawValue, i, matched) ==
  IF i > NumField(S)
    THEN [err |-> IF matched THEN NoErr ELSE <<"unknown variant", variant>>, Value |-> V]
  ELSE LET tf == S.fields[i] IN
    IF tf.tag # variant /\ tf.name # variant
      THEN MutTaggedUnmarshalLoopEither(S, V, variant, rawValue, i + 1, matched)
    ELSE IF matched THEN [err |-> <<"multiple fields matched">>, Value |-> V]
    ELSE LET target == jsonUnmarshal(tf, rawValue) IN
      IF target.err # NoErr THEN [err |-> target.err, Value |-> V]
      ELSE MutTaggedUnmarshalLoopEither(S, [V EXCEPT ![i] = target.val], variant, rawValue, i + 1, TRUE)

\* the loop of UnmarshalJSON from field i on
RECURSIVE TaggedUnmarshalLoop(_, _, _, _, _, _)
TaggedUnmarshalLoop(S, V, variant, rawValue, i, matched) ==
  IF i > NumField(S)
    THEN [err |-> IF matched THEN NoErr ELSE <<"unknown variant", variant>>, Value |-> V]
  ELSE LET tf == S.fields[i] IN
    IF CmpOr(tf.tag, tf.name) # variant
      THEN TaggedUnmarshalLoop(S, V, variant, rawValue, i + 1, matched)
    ELSE IF matched THEN [err |-> <<"multiple fields matched">>, Value |-> V]
    ELSE LET target == jsonUnmarshal(tf, rawValue) IN
      IF target.err # NoErr THEN [err |-> target.err, Value |-> V]
      ELSE TaggedUnmarshalLoop(S, [V EXCEPT ![i] = target.val], variant, rawValue, i + 1, TRUE)

\* UnmarshalJSON with the struct check made before the text is parsed
MutTaggedUnmarshalJSON(S, V, data) ==
  LET p == jsonUnmarshalRaw(data)
      fn == fieldNames(S)
  IN  IF ~S.struct THEN [err |-> <<"spec must be a struct">>, Value |-> V]
      ELSE IF p.err # NoErr THEN [err |-> p.err, Value |-> V]
      ELSE IF fn.variant \notin DOMAIN p.raw
        THEN [err |-> <<"missing variant field", fn.variant>>, Value |-> V]
      ELSE IF fn.value \notin DOMAIN p.raw
        THEN [err |-> <<"missing value field", fn.value>>, Value |-> V]
      ELSE LET variant == jsonUnmarshalString(p.raw[fn.variant]) IN
        IF variant.err # NoErr THEN [err |-> variant.err, Value |-> V]
        ELSE TaggedUnmarshalLoop(S, V, variant.val, p.raw[fn.value], 1, FALSE)

TaggedUnmarshalJSON(S, V, data) ==
  LET p == jsonUnmarshalRaw(data)
      fn == fieldNames(S)
  IN  IF p.err # NoErr THEN [err |-> p.err, Value |-> V]
      ELSE IF ~S.struct THEN [err |-> <<"spec must be a struct">>, Value |-> V]
      ELSE IF fn.variant \notin DOMAIN p.raw
        THEN [err |-> <<"missing variant field", fn.variant>>, Value |-> V]
      ELSE IF fn.value \notin DOMAIN p.raw
        THEN [err |-> <<"missing value field", fn.value>>, Value |-> V]
      ELSE LET variant == jsonUnmarshalString(p.raw[fn.variant]) IN
        IF variant.err # NoErr THEN [err |-> variant.err, Value |-> V]
        ELSE TaggedUnmarshalLoop(S, V, variant.val, p.raw[fn.value], 1, FALSE)

(***************************************************************************)
(* Union[Spec]                                                             *)
(***************************************************************************)

\* GetValue's loop without the check for a second non-zero field
RECURSIVE MutUnionGetValueLoop(_, _, _, _)
MutUnionGetValueLoop(S, V, i, value) ==
  IF i > NumField(S) THEN value
  ELSE IF IsZero(S.fields[i], V[i]) THEN MutUnionGetValueLoop(S, V, i + 1, value)
  ELSE IF value # <<>> THEN value
  ELSE MutUnionGetValueLoop(S, V, i + 1, <<V[i]>>)

RECURSIVE UnionGetValueLoop(_, _, _, _)
UnionGetValueLoop(S, V, i, value) ==
  IF i > NumField(S) THEN value
  ELSE IF IsZero(S.fields[i], V[i]) THEN UnionGetValueLoop(S, V, i + 1, value)
  ELSE IF value # <<>> THEN <<>>
  ELSE UnionGetValueLoop(S, V, i + 1, <<V[i]>>)

UnionGetValue(S, V) ==
  IF ~S.struct THEN <<>> ELSE UnionGetValueLoop(S, V, 1, <<>>)

RECURSIVE UnionMarshalLoop(_, _, _, _)
UnionMarshalLoop(S, V, i, active) ==
  IF i > NumField(S) THEN [err |-> NoErr, active |-> active]
  ELSE IF IsZero(S.fields[i], V[i]) THEN UnionMarshalLoop(S, V, i + 1, active)
  ELSE IF active # <<>> THEN [err |-> <<"multiple variants set">>, active |-> active]
  ELSE UnionMarshalLoop(S, V, i + 1, <<i>>)

UnionMarshalJSON(S, V) ==
  IF ~S.struct THEN [err |-> <<"spec must be a struct">>, out |-> <<>>]
  ELSE LET r == UnionMarshalLoop(S, V, 1, <<>>) IN
    IF r.err # NoErr THEN [err |-> r.err, out |-> <<>>]
    ELSE IF r.active = <<>> THEN [err |-> <<"zero variants set">>, out |-> <<>>]
    ELSE [err |-> NoErr,
          out |-> <<Text(MarshalValue(S.fields[r.active[1]], V[r.active[1]]))>>]

\* UnmarshalJSON's loop without the check that the decoded value is non-zero
RECURSIVE MutUnionUnmarshalLoop(_, _, _, _)
MutUnionUnmarshalLoop(S, V, data, i) ==
  IF i > NumField(S) THEN [err |-> <<"no field matched">>, Value |-> V]
  ELSE LET tf == S.fields[i]
           target == decoderDecode(tf, data)
       IN  IF target.err # NoErr THEN MutUnionUnmarshalLoop(S, V, data, i + 1)
           ELSE [err |-> NoErr, Value |-> [V EXCEPT ![i] = target.val]]

RECURSIVE UnionUnmarshalLoop(_, _, _, _)
UnionUnmarshalLoop(S, V, data, i) ==
  IF i > NumField(S) THEN [err |-> <<"no field matched">>, Value |-> V]
  ELSE LET tf == S.fields[i]
           target == decoderDecode(tf, data)
       IN  IF target.err # NoErr THEN UnionUnmarshalLoop(S, V, data, i + 1)
           ELSE IF ~IsZero(tf, target.val)
             THEN [err |-> NoErr, Value |-> [V EXCEPT ![i] = target.val]]
           ELSE UnionUnmarshalLoop(S, V, data, i + 1)

UnionUnmarshalJSON(S, V, data) ==
  IF ~S.struct THEN [err |-> <<"spec must be a struct">>, Value |-> V]
  ELSE UnionUnmarshalLoop(S, V, data, 1)

(***************************************************************************)
(* Inputs: the JSON texts handed to UnmarshalJSON                          *)
(***************************************************************************)

Scalars == {JNum(n) : n \in Nums} \cup {JStr("x")}

Objects(keys) == {JObj(m) : m \in [keys -> Scalars]}

\* key sets of the payload objects tried: those of the payload types, parts
\* of them, and ones with a key ("sides") no payload type has
KeySets ==
  {{}, {"radius"}, {"height"}, {"width", "height"}, {"base", "height"},
   {"sides"}, {"radius", "sides"}}

PayloadObjects == UNION {Objects(keys) : keys \in KeySets}

UnionInputs ==
  {Text(j) : j \in PayloadObjects \cup {JNull, JNum(1), JStr("x"), JArr}}
    \cup {Malformed, Trailing(JObj([radius |-> JNum(1)])), Trailing(JNum(1))}

VariantStrings == {"circle", "Circle", "rectangle", "shape", "hexagon"}

Discriminators == {JStr(t) : t \in VariantStrings} \cup {JNum(1), JNull}

TaggedPayloads ==
  {JNull, JNum(1), JObj(<<>>), JObj([radius |-> JStr("x")]),
   JObj([radius |-> JNum(1), sides |-> JNum(1)])}
    \cup {JObj([radius |-> JNum(n)]) : n \in Nums}
    \cup {JObj([width |-> JNum(0), height |-> JNum(n)]) : n \in Nums \ {0}}

DefaultNames == [variant |-> "type", value |-> "value"]

CustomNames == [variant |-> "kind", value |-> "data"]

Optional(X) == {<<>>} \cup {<<x>> : x \in X}

\* the object {fn.variant: d, fn.value: p}, each member present or absent
Wrapper(fn, d, p) ==
  JObj([key \in (IF d # <<>> THEN {fn.variant} ELSE {}) \cup (IF p # <<>> THEN {fn.value} ELSE {})
          |-> IF key = fn.variant THEN d[1] ELSE p[1]])

TaggedInputs ==
  {Text(Wrapper(DefaultNames, d, p)) :
      d \in Optional(Discriminators), p \in Optional(TaggedPayloads)}
    \cup {Text(Wrapper(CustomNames, d, p)) :
            d \in Optional({JStr("circle"), JStr("hexagon")}),
            p \in Optional({JObj([radius |-> JNum(1)])})}
    \cup {Text(Wrapper(DefaultNames, <<d>>, <<JObj([radius |-> JNum(1)])>>)) :
            d \in {JTrue, JArr, JObj(<<>>)}}
    \cup {Text(JNull), Text(JNum(1)), Text(JArr), Malformed,
          Trailing(Wrapper(DefaultNames, <<JStr("circle")>>, <<JObj([radius |-> JNum(1)])>>))}

(***************************************************************************)
(* State: one container of one Spec, and the last call made on it with the *)
(* container as it was when the call began (for "new" and "set", which are *)
(* not calls, the container as it is)                                      *)
(***************************************************************************)

NoData == [syntax |-> "none", val |-> JNull]

Call(op, data, err, out, pre) ==
  [op |-> op, data |-> data, err |-> err, out |-> out, pre |-> pre]

TheSpec == SpecDefs[spec]

\* the Specs each container is instantiated with
SpecsOf ==
  [TaggedUnion |-> {"Shape", "CustomFieldNamesShape", "NonPointerShape", "UnionNonPointerShape",
                    "SharedTagShape", "UnionEmptyShape", "NonStructType"},
   Union |-> {"NonStructTagsShape", "UnionNonPointerShape", "SharedTagShape",
              "RepeatedTypeShape", "UnionEmptyShape", "NonStructType"}]

Init ==
  /\ kind \in {"TaggedUnion", "Union"}
  /\ spec \in SpecsOf[kind]
  /\ Value = ZeroSpec(SpecDefs[spec])
  /\ last = Call("new", NoData, NoErr, <<>>, Value)

\* the caller assigns u.Value.<field i> (or, for the int Spec, u.Value)
SetField ==
  /\ IF TheSpec.struct
       THEN \E i \in 1..NumField(TheSpec) : \E v \in FieldValues(TheSpec.fields[i]) :
              Value' = [Value EXCEPT ![i] = v]
       ELSE Value' \in Nums
  /\ last' = Call("set", NoData, NoErr, <<>>, Value')
  /\ UNCHANGED <<kind, spec>>

\* GetValue answering from the container as it was before the last call
MutCallTaggedGetValue ==
  /\ kind = "TaggedUnion"
  /\ last' = Call("GetValue", NoData, NoErr, TaggedGetValue(TheSpec, last.pre), Value)
  /\ UNCHANGED <<kind, spec, Value>>

CallTaggedGetValue ==
  /\ kind = "TaggedUnion"
  /\ last' = Call("GetValue", NoData, NoErr, TaggedGetValue(TheSpec, Value), Value)
  /\ UNCHANGED <<kind, spec, Value>>

CallTaggedMarshalJSON ==
  /\ kind = "TaggedUnion"
  /\ LET r == TaggedMarshalJSON(TheSpec, Value)
     IN  last' = Call("MarshalJSON", NoData, r.err, r.out, Value)
  /\ UNCHANGED <<kind, spec, Value>>

CallTaggedUnmarshalJSON ==
  /\ kind = "TaggedUnion"
  /\ \E data \in TaggedInputs :
       LET r == TaggedUnmarshalJSON(TheSpec, Value, data)
       IN  /\ Value' = r.Value
           /\ last' = Call("UnmarshalJSON", data, r.err, <<>>, Value)
  /\ UNCHANGED <<kind, spec>>

CallUnionGetValue ==
  /\ kind = "Union"
  /\ last' = Call("GetValue", NoData, NoErr, UnionGetValue(TheSpec, Value), Value)
  /\ UNCHANGED <<kind, spec, Value>>

CallUnionMarshalJSON ==
  /\ kind = "Union"
  /\ LET r == UnionMarshalJSON(TheSpec, Value)
     IN  last' = Call("MarshalJSON", NoData, r.err, r.out, Value)
  /\ UNCHANGED <<kind, spec, Value>>

CallUnionUnmarshalJSON ==
  /\ kind = "Union"
  /\ \E data \in UnionInputs :
       LET r == UnionUnmarshalJSON(TheSpec, Value, data)
       IN  /\ Value' = r.Value
           /\ last' = Call("UnmarshalJSON", data, r.err, <<>>, Value)
  /\ UNCHANGED <<kind, spec>>

Next ==
  \/ SetField
  \/ CallTaggedGetValue
  \/ CallTaggedMarshalJSON
  \/ CallTaggedUnmarshalJSON
  \/ CallUnionGetValue
  \/ CallUnionMarshalJSON
  \/ CallUnionUnmarshalJSON

Spec == Init /\ [][Next]_vars

(***************************************************************************)
(* Properties                                                              *)
(***************************************************************************)

\* the fields of V that are not zero
NonZero(Sp, V) == {i \in 1..NumField(Sp) : ~IsZero(Sp.fields[i], V[i])}

\* the name a field answers to: its variant tag, or its identifier without one
ResolvedTag(tf) == IF tf.tag = "" THEN tf.name ELSE tf.tag

\* the discriminator and payload keys of a Spec
ResolvedNames(Sp) == IF Sp.names = <<>> THEN <<"type", "value">> ELSE Sp.names

\* the JSON a payload struct is written as
Encoded(s) == JObj([k \in DOMAIN s |-> JNum(s[k])])

\* a strict decode of data into the type of field tf succeeds and gives a
\* non-zero value: an object with no key foreign to the type, numbers (or
\* null) under its keys, and, unless the field is a pointer, a number that
\* is not 0
StrictlyDecodes(tf, data) ==
  /\ data.syntax # "bad"
  /\ data.val.k = "obj"
  /\ DOMAIN data.val.m \subseteq StructKeys[tf.type]
  /\ \A k \in DOMAIN data.val.m : data.val.m[k].k \in {"num", "null"}
  /\ tf.ptr \/ \E k \in DOMAIN data.val.m : data.val.m[k].k = "num" /\ data.val.m[k].n # 0

\* the value that decode gives
Decoded(tf, data) ==
  LET s == [k \in StructKeys[tf.type] |->
              IF k \in DOMAIN data.val.m /\ data.val.m[k].k = "num"
                THEN data.val.m[k].n ELSE 0]
  IN  IF tf.ptr THEN <<s>> ELSE s

Min(X) == CHOOSE x \in X : \A y \in X : x <= y

Decoding == last.op = "UnmarshalJSON"

Encoding == last.op = "MarshalJSON"

\* C1: every UnmarshalJSON that returns nil leaves exactly one field of the
\* container non-zero, whatever the container held before and whatever the
\* payload
C1_DecodeLeavesSingle ==
  (Decoding /\ last.err = NoErr) => Cardinality(NonZero(TheSpec, Value)) = 1

\* C2: for a struct Spec, MarshalJSON of either container succeeds exactly
\* when one field is non-zero, fails with "zero variants set" when none is and
\* with "multiple variants set" when two or more are
C2_MarshalIffSingle ==
  (Encoding /\ TheSpec.struct) =>
    LET n == Cardinality(NonZero(TheSpec, last.pre))
    IN  /\ last.err = NoErr <=> n = 1
        /\ n = 0 => last.err = <<"zero variants set">>
        /\ n >= 2 => last.err = <<"multiple variants set">>

C2_Witness ==
  /\ Encoding
  /\ kind = "TaggedUnion"
  /\ Cardinality(NonZero(TheSpec, last.pre)) = 3
  /\ last.err = <<"multiple variants set">>

\* no two fields of the Spec answer to the same variant name
DistinctTags(Sp) ==
  \A i, j \in 1..NumField(Sp) :
    i # j => ResolvedTag(Sp.fields[i]) # ResolvedTag(Sp.fields[j])

\* TaggedUnion.MarshalJSON was called on a container with one non-zero field
TaggedEncodingSingle ==
  /\ kind = "TaggedUnion"
  /\ Encoding
  /\ TheSpec.struct
  /\ Cardinality(NonZero(TheSpec, last.pre)) = 1

\* UnmarshalJSON of MarshalJSON's output into an empty container gives
\* back the container that was marshalled
RoundTrips ==
  /\ last.err = NoErr
  /\ LET r == TaggedUnmarshalJSON(TheSpec, ZeroSpec(TheSpec), last.out[1])
     IN  r.err = NoErr /\ r.Value = last.pre

C4_GetValue ==
  last.op = "GetValue" =>
    LET nz == IF TheSpec.struct THEN NonZero(TheSpec, last.pre) ELSE {}
        m == IF kind = "TaggedUnion"
               THEN TaggedMarshalJSON(TheSpec, last.pre)
               ELSE UnionMarshalJSON(TheSpec, last.pre)
    IN  /\ last.out = IF Cardinality(nz) = 1
                        THEN <<last.pre[CHOOSE i \in nz : TRUE]>>
                        ELSE <<>>
        /\ last.out # <<>> <=> m.err = NoErr

C4_Witness ==
  /\ last.op = "GetValue"
  /\ kind = "Union"
  /\ Cardinality(NonZero(TheSpec, last.pre)) = 2
  /\ last.out = <<>>

\* Union.UnmarshalJSON was called on a container of a struct Spec
UnionDecoding == kind = "Union" /\ Decoding /\ TheSpec.struct

\* the fields whose type strictly decodes the input to a non-zero value
Qualifying == {i \in 1..NumField(TheSpec) : StrictlyDecodes(TheSpec.fields[i], last.data)}

\* C5: Union.UnmarshalJSON succeeds exactly when some field's type strictly
\* decodes the input to a non-zero value, and then assigns the decoded value
\* to the first such field in declaration order and to no other field;
\* {"height":n} against {Circle, Rectangle, Triangle} sets Rectangle{0, n}
C5_FirstQualifyingField ==
  UnionDecoding =>
    /\ last.err = NoErr <=> Qualifying # {}
    /\ last.err = NoErr =>
         LET i == Min(Qualifying)
         IN  Value = [last.pre EXCEPT ![i] = Decoded(TheSpec.fields[i], last.data)]
    /\ ( /\ spec = "NonStructTagsShape"
         /\ last.data = Text(JObj([height |-> JNum(1)]))
         /\ last.pre = ZeroSpec(TheSpec) )
       => Value = << <<>>, <<[width |-> 0, height |-> 1]>>, <<>> >>

C5_Witness ==
  /\ UnionDecoding
  /\ spec = "NonStructTagsShape"
  /\ last.data = Text(JObj([height |-> JNum(1)]))
  /\ last.pre = ZeroSpec(TheSpec)
  /\ last.err = NoErr
  /\ Qualifying = {2, 3}

\* C6: Union.UnmarshalJSON of text that is not JSON at all fails with the
\* parse error, not with "no field matched"
C6_MalformedIsParseError ==
  (UnionDecoding /\ last.data.syntax = "bad") => last.err = SyntaxError

\* TaggedUnion.UnmarshalJSON was called on a container of a struct Spec with
\* text that parses as an object (null parses as the empty one)
TaggedDecodingObject ==
  /\ kind = "TaggedUnion"
  /\ Decoding
  /\ TheSpec.struct
  /\ last.data.syntax = "ok"
  /\ last.data.val.k \in {"obj", "null"}

\* the keys of the object parsed
Keys == IF last.data.val.k = "obj" THEN DOMAIN last.data.val.m ELSE {}

\* both keys are there and the discriminator is a JSON string
HasDiscriminator ==
  /\ TaggedDecodingObject
  /\ ResolvedNames(TheSpec)[1] \in Keys
  /\ ResolvedNames(TheSpec)[2] \in Keys
  /\ last.data.val.m[ResolvedNames(TheSpec)[1]].k = "str"

Discriminator == last.data.val.m[ResolvedNames(TheSpec)[1]].s

\* the fields whose resolved tag name is the discriminator
Matching == {i \in 1..NumField(TheSpec) : ResolvedTag(TheSpec.fields[i]) = Discriminator}

\* C7: TaggedUnion.UnmarshalJSON fails with "unknown variant: <discriminator>"
\* exactly when no field's resolved tag name equals the discriminator, and
\* then assigns no field; a tagged field is not matched by its identifier
C7_UnknownVariant ==
  HasDiscriminator =>
    /\ Matching = {} <=> last.err = <<"unknown variant", Discriminator>>
    /\ Matching = {} => Value = last.pre

C7_Witness ==
  /\ HasDiscriminator
  /\ spec = "Shape"
  /\ Discriminator = "Circle"
  /\ last.err = <<"unknown variant", "Circle">>

\* C8: on a parsed object TaggedUnion.UnmarshalJSON fails with "missing
\* variant field: <key>" when the discriminator key is absent, and with
\* "missing value field: <key>" when only the payload key is absent, the keys
\* being the resolved pair; no field is matched or assigned before that
C8_MissingKeys ==
  TaggedDecodingObject =>
    LET names == ResolvedNames(TheSpec)
    IN  /\ names[1] \notin Keys => last.err = <<"missing variant field", names[1]>>
        /\ (names[1] \in Keys /\ names[2] \notin Keys)
             => last.err = <<"missing value field", names[2]>>
        /\ (names[1] \notin Keys \/ names[2] \notin Keys) => Value = last.pre

C8_Witness ==
  /\ TaggedDecodingObject
  /\ spec = "CustomFieldNamesShape"
  /\ Keys = {"kind"}
  /\ last.data.val.m["kind"] = JStr("hexagon")
  /\ last.err = <<"missing value field", "data">>

\* C9: TaggedUnion.MarshalJSON of a container with one non-zero field writes
\* an object of exactly two keys, the discriminator key with the field's
\* resolved tag name and the payload key with the field's value; the keys are
\* the resolved pair, the one UnmarshalJSON looks up
C9_MarshalledObject ==
  (kind = "TaggedUnion" /\ Encoding /\ last.err = NoErr) =>
    LET names == ResolvedNames(TheSpec)
        i == CHOOSE i \in NonZero(TheSpec, last.pre) : TRUE
        tf == TheSpec.fields[i]
        text == last.out[1]
        back == TaggedUnmarshalJSON(TheSpec, ZeroSpec(TheSpec), text)
    IN  /\ text.syntax = "ok"
        /\ text.val.k = "obj"
        /\ DOMAIN text.val.m = {names[1], names[2]}
        /\ Cardinality(DOMAIN text.val.m) = 2
        /\ text.val.m[names[1]] = JStr(ResolvedTag(tf))
        /\ text.val.m[names[2]] = Encoded(IF tf.ptr THEN last.pre[i][1] ELSE last.pre[i])
        /\ back.err # <<"missing variant field", names[1]>>
        /\ back.err # <<"missing value field", names[2]>>

C9_Witness ==
  /\ kind = "TaggedUnion"
  /\ Encoding
  /\ spec = "CustomFieldNamesShape"
  /\ last.out = <<Text(JObj([kind |-> JStr("circle"), data |-> JObj([radius |-> JNum(1)])]))>>

\* C10: Union.UnmarshalJSON fails with "no field matched" exactly when no
\* field's type strictly decodes the input to a non-zero value: keys foreign
\* to every field type, a value of the wrong type, a Spec with no fields
C10_NoFieldMatched ==
  UnionDecoding =>
    /\ last.err = <<"no field matched">>
         <=> \A i \in 1..NumField(TheSpec) : ~StrictlyDecodes(TheSpec.fields[i], last.data)
    /\ last.err \in {NoErr, <<"no field matched">>}

C10_Witness ==
  /\ UnionDecoding
  /\ last.err = <<"no field matched">>
  /\ \/ spec = "UnionEmptyShape" /\ last.data = Text(JObj([radius |-> JNum(1)]))
     \/ spec = "NonStructTagsShape" /\ last.data = Text(JObj([sides |-> JNum(1)]))
     \/ spec = "NonStructTagsShape" /\ last.data = Text(JObj([radius |-> JStr("x")]))

\* C11: TaggedUnion.UnmarshalJSON fails with "multiple fields matched"
\* whenever more than one field's resolved tag name equals the discriminator,
\* whatever the payload
C11_MultipleFieldsMatched ==
  (HasDiscriminator /\ Cardinality(Matching) > 1)
    => last.err = <<"multiple fields matched">>

\* C12: when Spec is not a struct, MarshalJSON of both containers and
\* Union.UnmarshalJSON fail with "spec must be a struct" for every container
\* and input (malformed input too); TaggedUnion.UnmarshalJSON returns the
\* parse error when the input does not parse as an object, and "spec must be
\* a struct" for every input that does, whatever keys it has
C12_NotAStruct ==
  ~TheSpec.struct =>
    /\ Encoding => last.err = <<"spec must be a struct">>
    /\ (kind = "Union" /\ Decoding) => last.err = <<"spec must be a struct">>
    /\ (kind = "TaggedUnion" /\ Decoding) =>
         last.err = IF last.data.syntax # "ok" THEN SyntaxError
                    ELSE IF last.data.val.k \notin {"obj", "null"} THEN TypeError
                    ELSE <<"spec must be a struct">>
    /\ Decoding => Value = last.pre

C12_Witness ==
  /\ ~TheSpec.struct
  /\ kind = "TaggedUnion"
  /\ Decoding
  /\ last.data = Text(JObj([value |-> JObj([radius |-> JNum(1)])]))
  /\ last.err = <<"spec must be a struct">>

\* what GetValue is to return for container V
ActiveValue(Sp, V) ==
  IF Sp.struct /\ Cardinality(NonZero(Sp, V)) = 1
    THEN <<V[CHOOSE i \in NonZero(Sp, V) : TRUE]>>
    ELSE <<>>

\* the error MarshalJSON is to return for container V
MarshalError(Sp, V) ==
  IF ~Sp.struct THEN <<"spec must be a struct">>
  ELSE IF NonZero(Sp, V) = {} THEN <<"zero variants set">>
  ELSE IF Cardinality(NonZero(Sp, V)) > 1 THEN <<"multiple variants set">>
  ELSE NoErr

\* C13: GetValue and MarshalJSON of both containers leave every field as it
\* was and answer from the fields as they are now (empty, single or invalid),
\* whatever was assigned or decoded before; a call repeated on the unmodified
\* container returns the same results (it changes nothing at all)
C13_PureRead ==
  [][ last'.op \in {"GetValue", "MarshalJSON"} =>
        /\ Value' = Value
        /\ last'.pre = Value
        /\ last'.op = "GetValue" => last'.out = ActiveValue(TheSpec, Value)
        /\ last'.op = "MarshalJSON" => last'.err = MarshalError(TheSpec, Value)
        /\ last.op = last'.op => (last'.out = last.out /\ last'.err = last.err)
    ]_vars

C13_Witness ==
  /\ last.op = "GetValue"
  /\ kind = "TaggedUnion"
  /\ spec = "Shape"
  /\ Value = last.pre
  /\ NonZero(TheSpec, Value) = {2}
  /\ last.out = <<Value[2]>>

\* the object parsed has both keys
HasBothKeys ==
  /\ TaggedDecodingObject
  /\ ResolvedNames(TheSpec)[1] \in Keys
  /\ ResolvedNames(TheSpec)[2] \in Keys

\* the JSON value under the discriminator key
DiscriminatorValue == last.data.val.m[ResolvedNames(TheSpec)[1]]

\* C14: TaggedUnion.UnmarshalJSON fails with a type-mismatch error whenever
\* the value under the discriminator key is not a JSON string (number,
\* boolean, object, array or null), and assigns no field
C14_NonStringDiscriminator ==
  (HasBothKeys /\ DiscriminatorValue.k # "str")
    => (last.err = TypeError /\ Value = last.pre)

\* C14, amended: it does for a number, boolean, object or array; a null
\* discriminator is read as the empty string, matches no field, and fails
\* with "unknown variant: " (no field is assigned either way)
C14_NonStringNonNullDiscriminator ==
  (HasBothKeys /\ DiscriminatorValue.k # "str") =>
    /\ DiscriminatorValue.k # "null" => last.err = TypeError
    /\ DiscriminatorValue.k = "null" => last.err = <<"unknown variant", "">>
    /\ Value = last.pre

C14_Witness ==
  /\ HasBothKeys
  /\ DiscriminatorValue \in {JNum(1), JTrue, JArr, JObj(<<>>)}
  /\ Cardinality(NonZero(TheSpec, last.pre)) = 1
  /\ last.err = TypeError

\* C15: whenever UnmarshalJSON of either container returns an error, every
\* field of the container holds the value it held before the call
C15_FailureAtomicity ==
  (Decoding /\ last.err # NoErr) => Value = last.pre

\* Union.MarshalJSON was called on a container with one non-zero field
UnionEncodingSingle ==
  /\ kind = "Union"
  /\ Encoding
  /\ TheSpec.struct
  /\ Cardinality(NonZero(TheSpec, last.pre)) = 1

\* the field that was non-zero
ActiveField == CHOOSE i \in NonZero(TheSpec, last.pre) : TRUE

\* Union.UnmarshalJSON of the marshalled text into an empty container
DecodedBack == UnionUnmarshalJSON(TheSpec, ZeroSpec(TheSpec), last.out[1])

\* the fields declared before the active one whose type strictly decodes the
\* marshalled text to a non-zero value
EarlierQualifying ==
  {j \in 1..(ActiveField - 1) : StrictlyDecodes(TheSpec.fields[j], last.out[1])}

\* C16: for a Union with exactly one field i non-zero, MarshalJSON succeeds
\* and UnmarshalJSON of its output into an empty Union succeeds and sets one
\* field, of index <= i; it is field i with the original payload exactly
\* when no earlier field's type strictly decodes the output to a non-zero value
C16_UnionRoundTrip ==
  UnionEncodingSingle =>
    /\ last.err = NoErr
    /\ DecodedBack.err = NoErr
    /\ \E j \in 1..ActiveField : NonZero(TheSpec, DecodedBack.Value) = {j}
    /\ ( /\ NonZero(TheSpec, DecodedBack.Value) = {ActiveField}
         /\ DecodedBack.Value[ActiveField] = last.pre[ActiveField] )
       <=> EarlierQualifying = {}

C16_Witness ==
  /\ UnionEncodingSingle
  /\ spec = "RepeatedTypeShape"
  /\ ActiveField = 2
  /\ EarlierQualifying = {1}
  /\ NonZero(TheSpec, DecodedBack.Value) = {1}

====
